---- MODULE Spec2Model ----
(***************************************************************************)
(* Model of the face-blurring video pipeline of backend/video_processor.py *)
(* (VideoProcessor.analyze_video, detect_faces, apply_blur_to_frame,       *)
(* process_video, generate_preview) and of the session layer of            *)
(* backend/main.py and backend/temp_storage.py (request handlers,          *)
(* background tasks, progress callback).                                   *)
(*                                                                         *)
(* A frame is a record [w, h, px]: px maps <<x, y>> (0-based column, row)  *)
(* to one 8-bit channel value.  The three colour channels of the code are  *)
(* blurred independently by the same kernel, so one channel is modelled.   *)
(***************************************************************************)
EXTENDS Integers, Sequences, FiniteSets, TLC

VARIABLES
    pc,                 \* position of the invocation that is running
    frame,              \* the frame just read / the input of apply_blur_to_frame
    blur_strength,      \* blur_strength argument
    masks,              \* the FaceBoundingBox list handed to apply_blur_to_frame
    result_frame,       \* the value apply_blur_to_frame returned
    source,             \* the frames the container really holds, in order
    total_frames,       \* int(cap.get(CAP_PROP_FRAME_COUNT)): the reported count
    masks_data,         \* the schedule: a dict from keys to lists of mask dicts
    progress_callback,  \* TRUE when a progress callback was passed
    src_state,          \* "ok", "missing" (no such file) or "unreadable"
    sink_ok,            \* whether the VideoWriter can be created
    cap_open,           \* the VideoCapture holds an open handle
    cap_pos,            \* number of frames cap.read() has delivered
    ret,                \* the flag returned by the last cap.read()
    out_open,           \* the VideoWriter holds an open handle
    frame_number,       \* the loop index
    sink,               \* the frames written to the VideoWriter, in order
    blurred,            \* the frame numbers the blur branch was taken for
    cb_calls,           \* the percentages passed to progress_callback, in order
    session,            \* the session record the callback updates
    error,              \* the exception the invocation raised, or "none"
    fps,                \* cap.get(CAP_PROP_FPS), an exact rational
    width,              \* int(cap.get(CAP_PROP_FRAME_WIDTH))
    height,             \* int(cap.get(CAP_PROP_FRAME_HEIGHT))
    preview_duration,   \* preview_duration argument, in seconds
    preview_frames,     \* generate_preview's bound on the frames to write
    preview_width,      \* width of the preview sink
    preview_height,     \* height of the preview sink
    detector,           \* what the face detector does on each frame it is given
    faces_by_frame,     \* analyze_video's dict from keys to lists of face dicts
    faces_log,          \* what detect_faces returned for each frame, in order
    analysis_result,    \* the dict analyze_video returned, or NoResult
    files,              \* the session's 'files' dict: which paths are recorded
    tasks,              \* the background tasks added so far, in order
    loop_owner,         \* the task the event loop is running, 0 when it is free
    requests            \* number of requests the server has handled

blurVars == <<masks, result_frame>>

renderVars == <<source, total_frames, masks_data, progress_callback, src_state,
                sink_ok, cap_open, cap_pos, ret, out_open, frame_number, sink,
                blurred, cb_calls, session, error>>

previewVars == <<fps, width, height, preview_duration, preview_frames,
                 preview_width, preview_height>>

analysisVars == <<detector, faces_by_frame, faces_log, analysis_result>>

sessionVars == <<files, tasks, loop_owner, requests>>

vars == <<pc, frame, blur_strength, blurVars, renderVars, previewVars,
          analysisVars, sessionVars>>

----------------------------------------------------------------------------
(* Bounds of the model *)

FrameW == 3         \* width of the modelled frames, in pixels
FrameH == 2         \* height of the modelled frames, in pixels
MaxSeed == 1        \* test frames are numbered 0..MaxSeed
MaxOut == 2         \* how far a region's origin may lie left of / above the frame
MaxRegSize == 2     \* largest region width and height
MaxStrength == 1    \* blur_strength ranges over 1..MaxStrength
MaxFrames == 21     \* the source holds 0..MaxFrames frames
MaxSkew == 2        \* the reported frame count is off by at most MaxSkew, or is 0
MaxPreviewSource == 4   \* a previewed source holds 0..MaxPreviewSource frames
MaxDuration == 2    \* preview_duration ranges over 1..MaxDuration
MaxDim == 6         \* small source widths and heights range over 1..MaxDim

----------------------------------------------------------------------------
(* Helpers *)

Max(a, b) == IF a >= b THEN a ELSE b

Min(a, b) == IF a <= b THEN a ELSE b

RECURSIVE SeqSum(_)
SeqSum(s) == IF s = <<>> THEN 0 ELSE Head(s) + SeqSum(Tail(s))

NoFrame == [id |-> -1, w |-> 0, h |-> 0, px |-> <<>>]

\* A decoded test frame: a non-uniform pattern, different for each seed.  The
\* field id names the frame (its position in the container); no operation of
\* the code reads or changes it.
TestFrame(seed) ==
    [id |-> seed, w |-> FrameW, h |-> FrameH,
     px |-> [p \in (0 .. FrameW - 1) \X (0 .. FrameH - 1) |->
                ((seed + 1) * (p[1] * p[1] * 29 + p[2] * 83 + 17) * 7) % 256]]

----------------------------------------------------------------------------
(* numpy slicing, as used by result_frame[y1:y2, x1:x2] *)

\* One bound of a basic slice a[i:j] on an axis of length len: a negative
\* bound counts from the end, then the bound is clamped to 0..len.
SliceIndex(i, len) ==
    LET j == IF i < 0 THEN i + len ELSE i
    IN  IF j < 0 THEN 0 ELSE IF j > len THEN len ELSE j

\* The rectangle of img that img[y1:y2, x1:x2] denotes: columns xa..xb-1,
\* rows ya..yb-1 (empty when xb <= xa or yb <= ya).
SliceRect(img, y1, y2, x1, x2) ==
    LET xa == SliceIndex(x1, img.w)
        xb == SliceIndex(x2, img.w)
        ya == SliceIndex(y1, img.h)
        yb == SliceIndex(y2, img.h)
    IN  [xa |-> xa, xb |-> Max(xa, xb), ya |-> ya, yb |-> Max(ya, yb)]

\* roi = img[y1:y2, x1:x2]
Roi(img, y1, y2, x1, x2) ==
    LET r == SliceRect(img, y1, y2, x1, x2)
        rw == r.xb - r.xa
        rh == r.yb - r.ya
    IN  [w |-> rw, h |-> rh,
         px |-> [p \in (0 .. rw - 1) \X (0 .. rh - 1) |->
                    img.px[<<r.xa + p[1], r.ya + p[2]>>]]]

\* roi.size
RoiSize(roi) == roi.w * roi.h

\* img[y1:y2, x1:x2] = val
SetRoi(img, y1, y2, x1, x2, val) ==
    LET r == SliceRect(img, y1, y2, x1, x2)
    IN  [img EXCEPT !.px =
            [p \in DOMAIN img.px |->
                IF /\ r.xa <= p[1] /\ p[1] < r.xb
                   /\ r.ya <= p[2] /\ p[2] < r.yb
                THEN val.px[<<p[1] - r.xa, p[2] - r.ya>>]
                ELSE img.px[p]]]

----------------------------------------------------------------------------
(* cv2.GaussianBlur(roi, (kernel_size, kernel_size), 0) on an 8-bit image *)

\* kernel_size = max(3, blur_strength * 2 + 1)
KernelSize(strength) == Max(3, strength * 2 + 1)

\* With sigma = 0 OpenCV takes the kernels of size 3, 5 and 7 from a fixed
\* table: 1/4 * [1 2 1], 1/16 * [1 4 6 4 1], 1/64 * [2 7 14 18 14 7 2].
GaussianKernel(ksize) ==
    CASE ksize = 3 -> <<1, 2, 1>>
      [] ksize = 5 -> <<1, 4, 6, 4, 1>>
      [] ksize = 7 -> <<2, 7, 14, 18, 14, 7, 2>>

\* BORDER_REFLECT_101 (the default border): gfedcb|abcdefgh|gfedcba
RECURSIVE BorderInterpolate(_, _)
BorderInterpolate(p, len) ==
    IF 0 <= p /\ p < len THEN p
    ELSE IF len = 1 THEN 0
    ELSE IF p < 0 THEN BorderInterpolate(-p, len)
    ELSE BorderInterpolate(2 * len - 2 - p, len)

\* The separable filter: a horizontal pass, a vertical pass, then rounding to
\* the nearest 8-bit value.  The array passed from Python is a stand-alone
\* image for OpenCV, so the border is interpolated inside the roi.
GaussianBlur(roi, ksize) ==
    LET K == GaussianKernel(ksize)
        r == (ksize - 1) \div 2
        S == SeqSum(K)
        Hor(x, y) == SeqSum([i \in 1 .. ksize |->
                        K[i] * roi.px[<<BorderInterpolate(x + i - 1 - r, roi.w), y>>]])
        Ver(x, y) == SeqSum([j \in 1 .. ksize |->
                        K[j] * Hor(x, BorderInterpolate(y + j - 1 - r, roi.h))])
    IN  [roi EXCEPT !.px =
            [p \in DOMAIN roi.px |-> (Ver(p[1], p[2]) + (S * S) \div 2) \div (S * S)]]

----------------------------------------------------------------------------
(* VideoProcessor.apply_blur_to_frame *)

\* Mutant of BlurMask: the right edge of the clipped rectangle is one off.
BlurMaskWide(result, fr, mask, strength) ==
    LET x1 == Max(0, mask.x)
        y1 == Max(0, mask.y)
        x2 == Min(fr.w, mask.x + mask.width + 1)
        y2 == Min(fr.h, mask.y + mask.height)
        roi == Roi(result, y1, y2, x1, x2)
    IN  IF RoiSize(roi) > 0
        THEN SetRoi(result, y1, y2, x1, x2, GaussianBlur(roi, KernelSize(strength)))
        ELSE result

\* Mutant of BlurMask: the roi is taken from the input frame, not from the
\* working copy.
BlurMaskFromInput(result, fr, mask, strength) ==
    LET x1 == Max(0, mask.x)
        y1 == Max(0, mask.y)
        x2 == Min(fr.w, mask.x + mask.width)
        y2 == Min(fr.h, mask.y + mask.height)
        roi == Roi(fr, y1, y2, x1, x2)
    IN  IF RoiSize(roi) > 0
        THEN SetRoi(result, y1, y2, x1, x2, GaussianBlur(roi, KernelSize(strength)))
        ELSE result

\* The body of "for mask in masks": clip, take the roi of the working copy,
\* blur it and put it back.
BlurMask(result, fr, mask, strength) ==
    LET x1 == Max(0, mask.x)
        y1 == Max(0, mask.y)
        x2 == Min(fr.w, mask.x + mask.width)
        y2 == Min(fr.h, mask.y + mask.height)
        roi == Roi(result, y1, y2, x1, x2)
    IN  IF RoiSize(roi) > 0
        THEN SetRoi(result, y1, y2, x1, x2, GaussianBlur(roi, KernelSize(strength)))
        ELSE result

RECURSIVE BlurLoop(_, _, _, _)
BlurLoop(result, fr, ms, strength) ==
    IF ms = <<>> THEN result
    ELSE BlurLoop(BlurMask(result, fr, Head(ms), strength), fr, Tail(ms), strength)

apply_blur_to_frame(fr, ms, strength) ==
    IF ms = <<>> THEN fr ELSE BlurLoop(fr, fr, ms, strength)

----------------------------------------------------------------------------
(* SpecBlur: apply_blur_to_frame applied to bounded inputs *)

Regions ==
    [x : (-MaxOut) .. FrameW, y : (-MaxOut) .. FrameH,
     width : 1 .. MaxRegSize, height : 1 .. MaxRegSize, confidence : {100}]

\* The regions that have a pixel in common with a FrameW x FrameH frame.
InsideRegions ==
    {m \in Regions : /\ m.x < FrameW /\ m.x + m.width > 0
                     /\ m.y < FrameH /\ m.y + m.height > 0}

\* No region, any one region, or any two regions that both reach into the frame.
MaskLists == {<<>>} \cup {<<m>> : m \in Regions}
                    \cup {<<m, n>> : m \in InsideRegions, n \in InsideRegions}

\* The variables of the render pipeline while no render runs.
RenderIdle ==
    /\ source = <<>>
    /\ total_frames = 0
    /\ masks_data = <<>>
    /\ progress_callback = FALSE
    /\ src_state = "ok"
    /\ sink_ok = TRUE
    /\ cap_open = FALSE
    /\ cap_pos = 0
    /\ ret = FALSE
    /\ out_open = FALSE
    /\ frame_number = 0
    /\ sink = <<>>
    /\ blurred = {}
    /\ cb_calls = <<>>
    /\ session = [status |-> "uploaded", progress |-> [num |-> 0, den |-> 1]]
    /\ error = "none"

\* The variables of the preview pipeline while no preview runs.
PreviewIdle ==
    /\ fps = [num |-> 0, den |-> 1]
    /\ width = FrameW
    /\ height = FrameH
    /\ preview_duration = 0
    /\ preview_frames = 0
    /\ preview_width = 0
    /\ preview_height = 0

NoResult == [total_frames |-> -1, faces_by_frame |-> <<>>]

\* The variables of the analysis pipeline while no analysis runs.
AnalysisIdle ==
    /\ detector = <<>>
    /\ faces_by_frame = <<>>
    /\ faces_log = <<>>
    /\ analysis_result = NoResult

NoFiles == [uploaded_video |-> FALSE, analysis_json |-> FALSE,
            preview_video |-> FALSE, output_video |-> FALSE]

\* The variables of the session layer while no request was made.
SessionIdle ==
    /\ files = NoFiles
    /\ tasks = <<>>
    /\ loop_owner = 0
    /\ requests = 0

InitBlur ==
    /\ pc = "blur_call"
    /\ frame \in {TestFrame(s) : s \in 0 .. MaxSeed}
    /\ masks \in MaskLists
    /\ blur_strength \in 1 .. MaxStrength
    /\ result_frame = NoFrame
    /\ RenderIdle
    /\ PreviewIdle
    /\ AnalysisIdle
    /\ SessionIdle

ApplyBlur ==
    /\ pc = "blur_call"
    /\ result_frame' = apply_blur_to_frame(frame, masks, blur_strength)
    /\ pc' = "blur_returned"
    /\ UNCHANGED <<analysisVars, sessionVars, frame, masks, blur_strength, renderVars, previewVars>>

NextBlur == ApplyBlur

SpecBlur == InitBlur /\ [][NextBlur]_vars

----------------------------------------------------------------------------
(* The schedule: a Python dict whose keys are str or int objects *)

DigitChars == <<"0", "1", "2", "3", "4", "5", "6", "7", "8", "9">>

\* The decimal digits of a non-negative integer.
RECURSIVE Digits(_)
Digits(n) ==
    IF n < 10 THEN DigitChars[n + 1]
    ELSE Digits(n \div 10) \o DigitChars[(n % 10) + 1]

\* Dict keys: a str object and an int object are never equal, nor hash alike.
StrKey(s) == [type |-> "str", s |-> s, n |-> 0]

IntKey(n) == [type |-> "int", s |-> "", n |-> n]

\* str(frame_number)
Str(n) == StrKey(Digits(n))

\* d.get(key, default)
DictGet(d, key, default) == IF key \in DOMAIN d THEN d[key] ELSE default

\* FaceBoundingBox(x=mask['x'], y=mask['y'], width=mask['width'],
\*                 height=mask['height'], confidence=mask.get('confidence', 1.0))
ToBox(mask) ==
    [x |-> mask.x, y |-> mask.y, width |-> mask.width, height |-> mask.height,
     confidence |-> mask.confidence]

\* Mutant of FrameMasks: the lookup is one frame off.
FrameMasksOffByOne(md, n) == DictGet(md, Str(n + 1), <<>>)

\* frame_masks = masks_data.get(str(frame_number), [])
FrameMasks(md, n) == DictGet(md, Str(n), <<>>)

----------------------------------------------------------------------------
(* Percentages: exact rationals num/den with den > 0 *)

Rat(n, d) == [num |-> n, den |-> d]

RatLeq(a, b) == a.num * b.den <= b.num * a.den

\* Mutant of Progress: the share of frames still to do.
ProgressRemaining(n, total) == Rat((total - n) * 100, total)

\* progress = (frame_number + 1) / total_frames * 100
Progress(n, total) == Rat((n + 1) * 100, total)

\* main.py, progress_callback: progress = 50 + (percent * 0.5), stored with
\* status PROCESSING by update_session_status.
ProgressCallback(sess, percent) ==
    [sess EXCEPT !.status = "processing",
                 !.progress = Rat(100 * percent.den + percent.num, 2 * percent.den)]

----------------------------------------------------------------------------
(* VideoProcessor.process_video: the render pipeline *)

\* The container's frames: frame i of the source has id i.
Video(n) == [i \in 1 .. n |-> TestFrame(i - 1)]

RegA == [x |-> -1, y |-> 0, width |-> 2, height |-> 2, confidence |-> 100]

RegB == [x |-> 0, y |-> 0, width |-> 3, height |-> 1, confidence |-> 100]

ScheduleLists == {<<>>, <<RegA>>, <<RegA, RegB>>}

\* The frame indices the modelled schedules have entries for.
ScheduleIndices == {1, 10}

\* Schedules as analyze_video and the session layer build them: str keys.
Schedules ==
    UNION {[{Str(i) : i \in K} -> ScheduleLists] : K \in SUBSET ScheduleIndices}

ReportedCounts(n) ==
    {0} \cup {t \in (n - MaxSkew) .. (n + MaxSkew) : t >= 0}

Init ==
    /\ pc = "render_call"
    /\ frame = NoFrame
    /\ blur_strength \in 1 .. MaxStrength
    /\ masks = <<>>
    /\ result_frame = NoFrame
    /\ \E n \in 0 .. MaxFrames :
          /\ source = Video(n)
          /\ total_frames \in ReportedCounts(n)
    /\ masks_data \in Schedules
    /\ progress_callback \in BOOLEAN
    /\ src_state \in {"ok", "missing", "unreadable"}
    /\ sink_ok \in BOOLEAN
    /\ cap_open = FALSE
    /\ cap_pos = 0
    /\ ret = FALSE
    /\ out_open = FALSE
    /\ frame_number = 0
    /\ sink = <<>>
    /\ blurred = {}
    /\ cb_calls = <<>>
    /\ session = [status |-> "processing", progress |-> Rat(50, 1)]
    /\ error = "none"
    /\ PreviewIdle
    /\ AnalysisIdle
    /\ SessionIdle

Raise(e) ==
    /\ error' = e
    /\ pc' = "raised"

\* Lines 234-258: open the source, read the descriptor, create the sink.
ProcessVideoOpen ==
    /\ pc = "render_call"
    /\ IF src_state = "missing"
       THEN Raise("FileNotFoundError") /\ UNCHANGED <<cap_open, out_open>>
       ELSE IF src_state = "unreadable"
       THEN Raise("ValueError") /\ UNCHANGED <<cap_open, out_open>>
       ELSE IF ~sink_ok
       THEN Raise("ValueError") /\ cap_open' = FALSE /\ UNCHANGED out_open
       ELSE /\ cap_open' = TRUE
            /\ out_open' = TRUE
            /\ pc' = "read"
            /\ UNCHANGED error
    /\ frame_number' = 0
    /\ UNCHANGED <<analysisVars, sessionVars, previewVars, frame, blur_strength, blurVars, source, total_frames, masks_data,
                   progress_callback, src_state, sink_ok, cap_pos, ret, sink,
                   blurred, cb_calls, session>>

\* Lines 260-263: ret, frame = cap.read(); leave the loop when ret is false.
ProcessVideoRead ==
    /\ pc = "read"
    /\ IF cap_pos < Len(source)
       THEN /\ ret' = TRUE
            /\ frame' = source[cap_pos + 1]
            /\ cap_pos' = cap_pos + 1
            /\ pc' = "blur"
       ELSE /\ ret' = FALSE
            /\ frame' = NoFrame
            /\ pc' = "release"
            /\ UNCHANGED cap_pos
    /\ UNCHANGED <<analysisVars, sessionVars, previewVars, blur_strength, blurVars, source, total_frames, masks_data,
                   progress_callback, src_state, sink_ok, cap_open, out_open,
                   frame_number, sink, blurred, cb_calls, session, error>>

\* Lines 265-278: look the frame's masks up and blur when there are any.
ProcessVideoBlur ==
    /\ pc = "blur"
    /\ LET frame_masks == FrameMasks(masks_data, frame_number)
       IN  IF frame_masks # <<>>
           THEN /\ frame' = apply_blur_to_frame(frame,
                                [i \in 1 .. Len(frame_masks) |-> ToBox(frame_masks[i])],
                                blur_strength)
                /\ blurred' = blurred \cup {frame_number}
           ELSE UNCHANGED <<frame, blurred>>
    /\ pc' = "write"
    /\ UNCHANGED <<analysisVars, sessionVars, previewVars, blur_strength, blurVars, source, total_frames, masks_data,
                   progress_callback, src_state, sink_ok, cap_open, cap_pos, ret,
                   out_open, frame_number, sink, cb_calls, session, error>>

\* Mutant of ProcessVideoWrite: the frame is put before the frames written.
ProcessVideoWritePrepend ==
    /\ pc = "write"
    /\ sink' = <<frame>> \o sink
    /\ pc' = "progress"
    /\ UNCHANGED <<analysisVars, sessionVars, previewVars, frame, blur_strength, blurVars, source, total_frames, masks_data,
                   progress_callback, src_state, sink_ok, cap_open, cap_pos, ret,
                   out_open, frame_number, blurred, cb_calls, session, error>>

\* Line 281: out.write(frame)
ProcessVideoWrite ==
    /\ pc = "write"
    /\ sink' = Append(sink, frame)
    /\ pc' = "progress"
    /\ UNCHANGED <<analysisVars, sessionVars, previewVars, frame, blur_strength, blurVars, source, total_frames, masks_data,
                   progress_callback, src_state, sink_ok, cap_open, cap_pos, ret,
                   out_open, frame_number, blurred, cb_calls, session, error>>

\* Lines 283-288: report progress on every 10th frame, then advance the index.
\* The division raises ZeroDivisionError when total_frames is 0.
ProcessVideoProgress ==
    /\ pc = "progress"
    /\ IF progress_callback /\ frame_number % 10 = 0
       THEN IF total_frames = 0
            THEN /\ Raise("ZeroDivisionError")
                 /\ UNCHANGED <<cb_calls, session, frame_number>>
            ELSE /\ cb_calls' = Append(cb_calls, Progress(frame_number, total_frames))
                 /\ session' = ProgressCallback(session, Progress(frame_number, total_frames))
                 /\ frame_number' = frame_number + 1
                 /\ pc' = "read"
                 /\ UNCHANGED error
       ELSE /\ frame_number' = frame_number + 1
            /\ pc' = "read"
            /\ UNCHANGED <<cb_calls, session, error>>
    /\ UNCHANGED <<analysisVars, sessionVars, previewVars, frame, blur_strength, blurVars, source, total_frames, masks_data,
                   progress_callback, src_state, sink_ok, cap_open, cap_pos, ret,
                   out_open, sink, blurred>>

\* Lines 290-294: release both handles and return True.
ProcessVideoRelease ==
    /\ pc = "release"
    /\ cap_open' = FALSE
    /\ out_open' = FALSE
    /\ pc' = "done"
    /\ UNCHANGED <<analysisVars, sessionVars, previewVars, frame, blur_strength, blurVars, source, total_frames, masks_data,
                   progress_callback, src_state, sink_ok, cap_pos, ret, frame_number,
                   sink, blurred, cb_calls, session, error>>

Next ==
    \/ ProcessVideoOpen
    \/ ProcessVideoRead
    \/ ProcessVideoBlur
    \/ ProcessVideoWrite
    \/ ProcessVideoProgress
    \/ ProcessVideoRelease

Spec == Init /\ [][Next]_vars

----------------------------------------------------------------------------
(* VideoProcessor.generate_preview: the preview pipeline *)

PreviewCap == 640

\* int(r) for a rational r >= 0: truncation.
IntTrunc(r) == r.num \div r.den

\* Python's round(r) for a rational r >= 0: to the nearest integer, a tie to
\* the even one.
Round(r) ==
    LET fl == r.num \div r.den
        twice == 2 * (r.num - fl * r.den)
    IN  IF twice < r.den THEN fl
        ELSE IF twice > r.den THEN fl + 1
        ELSE IF fl % 2 = 0 THEN fl ELSE fl + 1

\* Mutant of PreviewFrames: the product is rounded to the nearest integer.
PreviewFramesRounded(total, duration, rate) ==
    Min(total, Round(Rat(duration * rate.num, rate.den)))

\* preview_frames = min(total_frames, int(preview_duration * fps))
PreviewFrames(total, duration, rate) ==
    Min(total, IntTrunc(Rat(duration * rate.num, rate.den)))

\* preview_width = min(640, width)
PreviewWidth(w) == Min(PreviewCap, w)

\* Mutant of PreviewHeight: the quotient is rounded to the nearest integer.
PreviewHeightRounded(pw, w, h) == Round(Rat(pw * h, w))

\* preview_height = int(preview_width * height / width)
PreviewHeight(pw, w, h) == IntTrunc(Rat(pw * h, w))

\* cv2.resize(frame, (preview_width, preview_height)): a frame of the given
\* size computed from fr.  The interpolated pixels are not modelled: the
\* resized frame refers to the full-size frame it was computed from.
Resize(fr, pw, ph) == [id |-> fr.id, w |-> pw, h |-> ph, from |-> fr]

FrameRates == {Rat(0, 1), Rat(1, 2), Rat(3, 4), Rat(1, 1), Rat(3, 2),
               Rat(5, 2), Rat(2997, 100)}

InitPreview ==
    /\ pc = "preview_call"
    /\ frame = NoFrame
    /\ blur_strength \in 1 .. MaxStrength
    /\ masks = <<>>
    /\ result_frame = NoFrame
    /\ \E n \in 0 .. MaxPreviewSource :
          /\ source = Video(n)
          /\ total_frames \in ReportedCounts(n)
    /\ masks_data \in Schedules
    /\ progress_callback = FALSE
    /\ src_state \in {"ok", "missing", "unreadable"}
    /\ sink_ok \in BOOLEAN
    /\ cap_open = FALSE
    /\ cap_pos = 0
    /\ ret = FALSE
    /\ out_open = FALSE
    /\ frame_number = 0
    /\ sink = <<>>
    /\ blurred = {}
    /\ cb_calls = <<>>
    /\ session = [status |-> "analyzed", progress |-> Rat(100, 1)]
    /\ error = "none"
    /\ fps \in FrameRates
    /\ width = FrameW
    /\ height = FrameH
    /\ preview_duration \in 1 .. MaxDuration
    /\ preview_frames = 0
    /\ preview_width = 0
    /\ preview_height = 0
    /\ AnalysisIdle
    /\ SessionIdle

\* Lines 351-370: open the source, compute the bound and the size, create the
\* sink.  The writer is not asked whether it opened.
PreviewOpen ==
    /\ pc = "preview_call"
    /\ IF src_state # "ok"
       THEN /\ Raise("ValueError")
            /\ UNCHANGED <<cap_open, out_open, preview_frames, preview_width,
                           preview_height>>
       ELSE /\ cap_open' = TRUE
            /\ preview_frames' = PreviewFrames(total_frames, preview_duration, fps)
            /\ preview_width' = PreviewWidth(width)
            /\ preview_height' = PreviewHeight(PreviewWidth(width), width, height)
            /\ out_open' = sink_ok
            /\ pc' = "preview_read"
            /\ UNCHANGED error
    /\ frame_number' = 0
    /\ UNCHANGED <<analysisVars, sessionVars, frame, blur_strength, blurVars, source, total_frames, masks_data,
                   progress_callback, src_state, sink_ok, cap_pos, ret, sink,
                   blurred, cb_calls, session, fps, width, height, preview_duration>>

\* Lines 372-375: for frame_num in range(preview_frames): read, break when
\* the source has no more frames.
PreviewRead ==
    /\ pc = "preview_read"
    /\ IF frame_number < preview_frames /\ cap_pos < Len(source)
       THEN /\ ret' = TRUE
            /\ frame' = source[cap_pos + 1]
            /\ cap_pos' = cap_pos + 1
            /\ pc' = "preview_blur"
       ELSE /\ ret' = (IF frame_number < preview_frames THEN FALSE ELSE ret)
            /\ pc' = "preview_release"
            /\ UNCHANGED <<frame, cap_pos>>
    /\ UNCHANGED <<analysisVars, sessionVars, previewVars, blur_strength, blurVars, source, total_frames,
                   masks_data, progress_callback, src_state, sink_ok, cap_open,
                   out_open, frame_number, sink, blurred, cb_calls, session, error>>

\* Lines 377-387: look the frame's masks up and blur when there are any.
PreviewBlur ==
    /\ pc = "preview_blur"
    /\ LET frame_masks == FrameMasks(masks_data, frame_number)
       IN  IF frame_masks # <<>>
           THEN /\ frame' = apply_blur_to_frame(frame,
                                [i \in 1 .. Len(frame_masks) |-> ToBox(frame_masks[i])],
                                blur_strength)
                /\ blurred' = blurred \cup {frame_number}
           ELSE UNCHANGED <<frame, blurred>>
    /\ pc' = "preview_write"
    /\ UNCHANGED <<analysisVars, sessionVars, previewVars, blur_strength, blurVars, source, total_frames,
                   masks_data, progress_callback, src_state, sink_ok, cap_open,
                   cap_pos, ret, out_open, frame_number, sink, cb_calls, session,
                   error>>

\* Lines 389-391: resize and write; cv2.resize raises for a target size with
\* a zero side, and a writer that did not open stores nothing.
PreviewWrite ==
    /\ pc = "preview_write"
    /\ IF preview_width > 0 /\ preview_height > 0
       THEN /\ sink' = IF out_open
                       THEN Append(sink, Resize(frame, preview_width, preview_height))
                       ELSE sink
            /\ frame_number' = frame_number + 1
            /\ pc' = "preview_read"
            /\ UNCHANGED error
       ELSE /\ Raise("cv2.error")
            /\ UNCHANGED <<sink, frame_number>>
    /\ UNCHANGED <<analysisVars, sessionVars, previewVars, frame, blur_strength, blurVars, source, total_frames,
                   masks_data, progress_callback, src_state, sink_ok, cap_open,
                   cap_pos, ret, out_open, blurred, cb_calls, session>>

\* Lines 393-397: release both handles and return True.
PreviewRelease ==
    /\ pc = "preview_release"
    /\ cap_open' = FALSE
    /\ out_open' = FALSE
    /\ pc' = "preview_done"
    /\ UNCHANGED <<analysisVars, sessionVars, previewVars, frame, blur_strength, blurVars, source, total_frames,
                   masks_data, progress_callback, src_state, sink_ok, cap_pos, ret,
                   frame_number, sink, blurred, cb_calls, session, error>>

NextPreview ==
    \/ PreviewOpen
    \/ PreviewRead
    \/ PreviewBlur
    \/ PreviewWrite
    \/ PreviewRelease

SpecPreview == InitPreview /\ [][NextPreview]_vars

----------------------------------------------------------------------------
(* SpecDims: the preview size computation applied to bounded descriptors *)

\* <<width, height>> of the sources: every small size, and sizes around and
\* above the 640 cap.
SourceSizes ==
    ((1 .. MaxDim) \X (1 .. MaxDim))
        \cup {<<639, 480>>, <<640, 480>>, <<641, 480>>, <<854, 480>>,
              <<1280, 719>>, <<1280, 720>>, <<1919, 1080>>, <<1920, 1080>>,
              <<720, 1280>>, <<1080, 1920>>}

\* A frame of the descriptor's size whose pixels are not modelled.
BlankFrame(w, h) == [id |-> 0, w |-> w, h |-> h, px |-> <<>>]

InitDims ==
    /\ pc = "dims_call"
    /\ \E size \in SourceSizes :
          /\ width = size[1]
          /\ height = size[2]
    /\ frame = BlankFrame(width, height)
    /\ blur_strength = 1
    /\ masks = <<>>
    /\ result_frame = NoFrame
    /\ RenderIdle
    /\ fps = Rat(0, 1)
    /\ preview_duration = 0
    /\ preview_frames = 0
    /\ preview_width = 0
    /\ preview_height = 0
    /\ AnalysisIdle
    /\ SessionIdle

\* Lines 363-368: the size the preview sink is created with.
DimsSink ==
    /\ pc = "dims_call"
    /\ preview_width' = PreviewWidth(width)
    /\ preview_height' = PreviewHeight(PreviewWidth(width), width, height)
    /\ pc' = "dims_resize"
    /\ UNCHANGED <<analysisVars, sessionVars, frame, blur_strength, blurVars, renderVars, fps, width, height,
                   preview_duration, preview_frames>>

\* Lines 389-390: the frame handed to the sink.  cv2.resize raises for a
\* target size with a zero side.
DimsResize ==
    /\ pc = "dims_resize"
    /\ IF preview_width > 0 /\ preview_height > 0
       THEN /\ frame' = Resize(frame, preview_width, preview_height)
            /\ pc' = "dims_done"
            /\ UNCHANGED error
       ELSE /\ Raise("cv2.error")
            /\ UNCHANGED frame
    /\ UNCHANGED <<analysisVars, sessionVars, blur_strength, blurVars, source, total_frames, masks_data,
                   progress_callback, src_state, sink_ok, cap_open, cap_pos, ret,
                   out_open, frame_number, sink, blurred, cb_calls, session,
                   previewVars>>

NextDims == DimsSink \/ DimsResize

SpecDims == InitDims /\ [][NextDims]_vars

----------------------------------------------------------------------------
(* SpecKeys: render and preview called with str-keyed or int-keyed schedules *)

MaxKeyFrames == 2   \* a source of SpecKeys holds 0..MaxKeyFrames frames

\* The frame indices the schedules of SpecKeys have entries for.
KeyIndices == {0, 1}

\* The dict key for frame index i, as a str object or as an int object.
KeyOf(i, form) == IF form = "int" THEN IntKey(i) ELSE Str(i)

\* masks_data as a caller of the core may pass it: each entry is keyed by the
\* str form or by the int form of its frame index.
KeyedSchedules ==
    UNION {UNION {[{KeyOf(i, form[i]) : i \in K} -> ScheduleLists] :
                    form \in [K -> {"str", "int"}]} :
             K \in SUBSET KeyIndices}

InitKeys ==
    /\ pc \in {"render_call", "preview_call"}
    /\ frame = NoFrame
    /\ blur_strength \in 1 .. MaxStrength
    /\ masks = <<>>
    /\ result_frame = NoFrame
    /\ \E n \in 0 .. MaxKeyFrames :
          /\ source = Video(n)
          /\ total_frames \in ReportedCounts(n)
    /\ masks_data \in KeyedSchedules
    /\ progress_callback = FALSE
    /\ src_state = "ok"
    /\ sink_ok = TRUE
    /\ cap_open = FALSE
    /\ cap_pos = 0
    /\ ret = FALSE
    /\ out_open = FALSE
    /\ frame_number = 0
    /\ sink = <<>>
    /\ blurred = {}
    /\ cb_calls = <<>>
    /\ session = [status |-> "analyzed", progress |-> Rat(100, 1)]
    /\ error = "none"
    /\ fps = Rat(5, 2)
    /\ width = FrameW
    /\ height = FrameH
    /\ preview_duration = IF pc = "preview_call" THEN MaxDuration ELSE 0
    /\ preview_frames = 0
    /\ preview_width = 0
    /\ preview_height = 0
    /\ AnalysisIdle
    /\ SessionIdle

NextKeys == Next \/ NextPreview

SpecKeys == InitKeys /\ [][NextKeys]_vars

----------------------------------------------------------------------------
(* VideoProcessor.detect_faces: the detection adapter *)

MinConfidence == 50     \* "if confidence < 0.5: continue", in percent

\* margin = 0.15 with the CNN detector, 0.2 with the HOG detector
Margin(mode) == IF mode = "cnn" THEN Rat(15, 100) ELSE Rat(20, 100)

\* int(num / den) for den > 0: truncation towards zero.
IntTowardZero(num, den) ==
    IF num >= 0 THEN num \div den ELSE -((-num) \div den)

\* x = max(0, int(x - w * margin)); w = min(width - x, int(w * (1 + 2 * margin)))
\* and the same for y and h.  The arithmetic is exact here; the floats of the
\* code give the same integers for every raw width and height below 45.
ExpandBox(det, fw, fh, mode, confidence) ==
    LET m == Margin(mode)
        x == Max(0, IntTowardZero(det.left * m.den - det.width * m.num, m.den))
        y == Max(0, IntTowardZero(det.top * m.den - det.height * m.num, m.den))
        w == Min(fw - x, IntTowardZero(det.width * (m.den + 2 * m.num), m.den))
        h == Min(fh - y, IntTowardZero(det.height * (m.den + 2 * m.num), m.den))
    IN  [x |-> x, y |-> y, width |-> w, height |-> h, confidence |-> confidence]

\* The faces list built from the detections dets.
ExpandAll(dets, fw, fh, mode) ==
    IF mode = "cnn"
    THEN LET kept == SelectSeq(dets, LAMBDA d : ~(d.confidence < MinConfidence))
         IN  [i \in 1 .. Len(kept) |->
                 ExpandBox(kept[i], fw, fh, mode, kept[i].confidence)]
    ELSE [i \in 1 .. Len(dets) |-> ExpandBox(dets[i], fw, fh, mode, 100)]

\* Mutant of detect_faces: without the try/except the detector's exception
\* leaves detect_faces.
detect_faces_uncaught(d, fw, fh, mode) ==
    IF d.fails
    THEN [raised |-> TRUE, faces |-> <<>>]
    ELSE [raised |-> FALSE, faces |-> ExpandAll(d.dets, fw, fh, mode)]

\* detect_faces on a frame of size fw x fh, when the detector either raises
\* (d.fails) or reports the raw detections d.dets.  The exception is caught
\* and logged, and the list built so far, which is empty, is returned.
detect_faces(d, fw, fh, mode) ==
    IF d.fails
    THEN [raised |-> FALSE, faces |-> <<>>]
    ELSE [raised |-> FALSE, faces |-> ExpandAll(d.dets, fw, fh, mode)]

----------------------------------------------------------------------------
(* SpecDetect: detect_faces applied to one bounded raw detection *)

MaxRawOut == 2      \* a raw box starts up to MaxRawOut outside the frame
MaxRawSize == 3     \* raw widths and heights range over 0..MaxRawSize

RawBoxes(fw, fh) ==
    [left : (-MaxRawOut) .. (fw + MaxRawOut), top : (-MaxRawOut) .. (fh + MaxRawOut),
     width : 0 .. MaxRawSize, height : 0 .. MaxRawSize, confidence : {40, 60}]

InitDetect ==
    /\ pc = "detect_call"
    /\ frame = BlankFrame(FrameW, FrameH)
    /\ \E mode \in {"cnn", "hog"}, raw \in RawBoxes(FrameW, FrameH) :
          detector = [mode |-> mode,
                      frames |-> <<[fails |-> FALSE, dets |-> <<raw>>]>>]
    /\ faces_by_frame = <<>>
    /\ faces_log = <<>>
    /\ analysis_result = NoResult
    /\ blur_strength = 1
    /\ masks = <<>>
    /\ result_frame = NoFrame
    /\ RenderIdle
    /\ PreviewIdle
    /\ SessionIdle

\* faces = self.detect_faces(frame)
DetectFaces ==
    /\ pc = "detect_call"
    /\ faces_log' = <<detect_faces(detector.frames[1], frame.w, frame.h,
                                    detector.mode).faces>>
    /\ pc' = "detect_returned"
    /\ UNCHANGED <<frame, blur_strength, blurVars, renderVars, previewVars,
                   detector, faces_by_frame, analysis_result, sessionVars>>

NextDetect == DetectFaces

SpecDetect == InitDetect /\ [][NextDetect]_vars

----------------------------------------------------------------------------
(* VideoProcessor.analyze_video, followed by a render of its schedule *)

MaxAnalysisFrames == 2  \* an analysed source holds 0..MaxAnalysisFrames frames

RawA == [left |-> 0, top |-> 0, width |-> 2, height |-> 1, confidence |-> 90]

RawLow == [left |-> 1, top |-> 0, width |-> 2, height |-> 2, confidence |-> 40]

\* What the detector may do on one frame: raise, find no face, find one face,
\* or find two of which one has a low confidence.
DetectorOutcomes ==
    {[fails |-> TRUE, dets |-> <<>>],
     [fails |-> FALSE, dets |-> <<>>],
     [fails |-> FALSE, dets |-> <<RawA>>],
     [fails |-> FALSE, dets |-> <<RawA, RawLow>>]}

InitAnalysis ==
    /\ pc = "analysis_call"
    /\ frame = NoFrame
    /\ blur_strength \in 1 .. MaxStrength
    /\ masks = <<>>
    /\ result_frame = NoFrame
    /\ \E n \in 0 .. MaxAnalysisFrames :
          /\ source = Video(n)
          /\ total_frames \in ReportedCounts(n)
          /\ detector \in [mode : {"cnn", "hog"},
                            frames : [1 .. n -> DetectorOutcomes]]
    /\ masks_data = <<>>
    /\ progress_callback \in BOOLEAN
    /\ src_state \in {"ok", "missing", "unreadable"}
    /\ sink_ok \in BOOLEAN
    /\ cap_open = FALSE
    /\ cap_pos = 0
    /\ ret = FALSE
    /\ out_open = FALSE
    /\ frame_number = 0
    /\ sink = <<>>
    /\ blurred = {}
    /\ cb_calls = <<>>
    /\ session = [status |-> "analyzing", progress |-> Rat(30, 1)]
    /\ error = "none"
    /\ faces_by_frame = <<>>
    /\ faces_log = <<>>
    /\ analysis_result = NoResult
    /\ PreviewIdle
    /\ SessionIdle

\* Lines 84-102: open the source, read the descriptor, start with an empty dict.
AnalyzeOpen ==
    /\ pc = "analysis_call"
    /\ IF src_state = "missing"
       THEN Raise("FileNotFoundError") /\ UNCHANGED cap_open
       ELSE IF src_state = "unreadable"
       THEN Raise("ValueError") /\ UNCHANGED cap_open
       ELSE /\ cap_open' = TRUE
            /\ pc' = "analysis_read"
            /\ UNCHANGED error
    /\ faces_by_frame' = <<>>
    /\ frame_number' = 0
    /\ UNCHANGED <<frame, blur_strength, blurVars, previewVars, sessionVars,
                   source, total_frames, masks_data, progress_callback, src_state,
                   sink_ok, cap_pos, ret, out_open, sink, blurred, cb_calls,
                   session, detector, faces_log, analysis_result>>

\* Lines 105-107: ret, frame = cap.read(); leave the loop when ret is false.
AnalyzeRead ==
    /\ pc = "analysis_read"
    /\ IF cap_pos < Len(source)
       THEN /\ ret' = TRUE
            /\ frame' = source[cap_pos + 1]
            /\ cap_pos' = cap_pos + 1
            /\ pc' = "analysis_detect"
       ELSE /\ ret' = FALSE
            /\ frame' = NoFrame
            /\ pc' = "analysis_return"
            /\ UNCHANGED cap_pos
    /\ UNCHANGED <<blur_strength, blurVars, previewVars, sessionVars, analysisVars,
                   source, total_frames, masks_data, progress_callback, src_state,
                   sink_ok, cap_open, out_open, frame_number, sink, blurred,
                   cb_calls, session, error>>

\* Mutant of AnalysisKey: the frames are numbered from 1.
AnalysisKeyFromOne(n) == Str(n + 1)

\* The key of line 111: str(frame_number)
AnalysisKey(n) == Str(n)

\* Lines 109-120: detect the faces of the frame, record them under the
\* frame's key when there are any, advance the index.
AnalyzeDetect ==
    /\ pc = "analysis_detect"
    /\ LET res == detect_faces(detector.frames[cap_pos], frame.w, frame.h,
                               detector.mode)
       IN  IF res.raised
           THEN /\ Raise("DetectorError")
                /\ UNCHANGED <<faces_by_frame, faces_log, frame_number>>
           ELSE /\ faces_log' = Append(faces_log, res.faces)
                /\ faces_by_frame' =
                      IF res.faces # <<>>
                      THEN (AnalysisKey(frame_number) :> res.faces) @@ faces_by_frame
                      ELSE faces_by_frame
                /\ frame_number' = frame_number + 1
                /\ pc' = "analysis_read"
                /\ UNCHANGED error
    /\ UNCHANGED <<frame, blur_strength, blurVars, previewVars, sessionVars,
                   source, total_frames, masks_data, progress_callback, src_state,
                   sink_ok, cap_open, cap_pos, ret, out_open, sink, blurred,
                   cb_calls, session, detector, analysis_result>>

\* Lines 122-148: release the source and return the result dict.
AnalyzeReturn ==
    /\ pc = "analysis_return"
    /\ cap_open' = FALSE
    /\ analysis_result' = [total_frames |-> total_frames,
                           faces_by_frame |-> faces_by_frame]
    /\ pc' = "analysis_done"
    /\ UNCHANGED <<frame, blur_strength, blurVars, previewVars, sessionVars,
                   source, total_frames, masks_data, progress_callback, src_state,
                   sink_ok, cap_pos, ret, out_open, frame_number, sink, blurred,
                   cb_calls, session, error, detector, faces_by_frame, faces_log>>

\* main.py lines 176-191 and 276-282: the schedule of the analysis result comes
\* back unedited in a process request, is copied entry by entry under
\* str(frame_key), and process_video is called with it on the same file.
RenderUnedited ==
    /\ pc = "analysis_done"
    /\ masks_data' =
          [key \in DOMAIN analysis_result.faces_by_frame |->
              [i \in 1 .. Len(analysis_result.faces_by_frame[key]) |->
                  ToBox(analysis_result.faces_by_frame[key][i])]]
    /\ cap_pos' = 0
    /\ ret' = FALSE
    /\ frame' = NoFrame
    /\ session' = [status |-> "processing", progress |-> Rat(50, 1)]
    /\ pc' = "render_call"
    /\ UNCHANGED <<blur_strength, blurVars, previewVars, sessionVars, analysisVars,
                   source, total_frames, progress_callback, src_state, sink_ok,
                   cap_open, out_open, frame_number, sink, blurred, cb_calls,
                   error>>

NextAnalysis ==
    \/ AnalyzeOpen
    \/ AnalyzeRead
    \/ AnalyzeDetect
    \/ AnalyzeReturn
    \/ RenderUnedited
    \/ Next

SpecAnalysis == InitAnalysis /\ [][NextAnalysis]_vars

----------------------------------------------------------------------------
(* main.py and temp_storage.py: one session served by one event loop *)

MaxRequests == 4        \* the server handles up to MaxRequests requests
MaxSessionFrames == 2   \* an uploaded video holds 1..MaxSessionFrames frames

\* Everything but the session record, its files and the event loop.
coreVars == <<pc, frame, blur_strength, blurVars, previewVars, analysisVars,
              source, total_frames, masks_data, progress_callback, src_state,
              sink_ok, cap_open, cap_pos, ret, out_open, frame_number, sink,
              blurred, cb_calls, error>>

\* self.sessions has no entry for the video_id.
NoSession == [status |-> "none", progress |-> Rat(0, 1)]

\* update_session_status(video_id, status, message, progress)
Status(st, percent) == [status |-> st, progress |-> percent]

\* background_tasks.add_task(...): the task as it waits for the event loop.
\* found and outcome record what the task saw and the status it wrote last.
NewTask(kind) ==
    [kind |-> kind, pc |-> "queued", written |-> 0, found |-> FALSE,
     outcome |-> "none"]

InitSession ==
    /\ pc = "serving"
    /\ frame = NoFrame
    /\ blur_strength \in 1 .. MaxStrength
    /\ masks = <<>>
    /\ result_frame = NoFrame
    /\ \E n \in 1 .. MaxSessionFrames :
          /\ source = Video(n)
          /\ total_frames \in ReportedCounts(n)
    /\ masks_data = <<>>
    /\ progress_callback = TRUE
    /\ src_state \in {"ok", "unreadable"}
    /\ sink_ok \in BOOLEAN
    /\ cap_open = FALSE
    /\ cap_pos = 0
    /\ ret = FALSE
    /\ out_open = FALSE
    /\ frame_number = 0
    /\ sink = <<>>
    /\ blurred = {}
    /\ cb_calls = <<>>
    /\ session = NoSession
    /\ error = "none"
    /\ PreviewIdle
    /\ AnalysisIdle
    /\ SessionIdle

\* A request handler runs when the event loop is free, from its first line to
\* its return: the handlers have no await after the request was read.
Handling ==
    /\ loop_owner = 0
    /\ requests < MaxRequests
    /\ requests' = requests + 1
    /\ UNCHANGED <<loop_owner, coreVars>>

\* main.py lines 33-77, temp_storage.py lines 27-64: POST /api/upload creates
\* the session and records the uploaded file.
UploadRequest ==
    /\ Handling
    /\ session = NoSession
    /\ session' = Status("uploaded", Rat(0, 1))
    /\ files' = [NoFiles EXCEPT !.uploaded_video = TRUE]
    /\ UNCHANGED tasks

\* main.py lines 80-97: POST /api/analyze.  Without an uploaded video the
\* handler answers with an error and the status update finds no session.
AnalyzeRequest ==
    /\ Handling
    /\ IF files.uploaded_video
       THEN /\ session' = Status("analyzing", Rat(10, 1))
            /\ tasks' = Append(tasks, NewTask("analysis"))
       ELSE UNCHANGED <<session, tasks>>
    /\ UNCHANGED files

\* main.py lines 114-164: POST /api/preview runs generate_preview inside the
\* handler and records the preview path when it returned True.
PreviewRequest ==
    /\ Handling
    /\ files' = IF files.uploaded_video /\ src_state = "ok"
                THEN [files EXCEPT !.preview_video = TRUE]
                ELSE files
    /\ UNCHANGED <<session, tasks>>

\* main.py lines 167-197: POST /api/process sets PROCESSING and adds the task.
ProcessRequest ==
    /\ Handling
    /\ IF files.uploaded_video
       THEN /\ session' = Status("processing", Rat(50, 1))
            /\ tasks' = Append(tasks, NewTask("processing"))
       ELSE UNCHANGED <<session, tasks>>
    /\ UNCHANGED files

\* Mutant of TaskYields: the render gives the event loop up between frames.
TaskYieldsWhileWriting(task) == task.pc = "writing"

\* main.py lines 246-291: perform_analysis and perform_processing are
\* coroutines without an await, and the calls they make are synchronous: once
\* the event loop has started one it runs to its end before anything else.
TaskYields(task) == FALSE

\* The event loop lets task t take its next step.
Runs(t) ==
    \/ loop_owner = t
    \/ loop_owner = 0 /\ tasks[t].pc # "finished"

\* Task t goes on as the record task; the loop is free again when the task
\* has finished or has given it up.
Step(t, task) ==
    /\ tasks' = [tasks EXCEPT ![t] = task]
    /\ loop_owner' = IF task.pc = "finished" \/ TaskYields(task) THEN 0 ELSE t
    /\ UNCHANGED <<requests, coreVars>>

\* The except clauses of the tasks: status ERROR, and the task is over.
Failed(task) == [task EXCEPT !.pc = "finished", !.outcome = "error"]

\* main.py line 249: perform_analysis starts.
AnalysisStart(t) ==
    /\ Runs(t)
    /\ tasks[t].kind = "analysis"
    /\ tasks[t].pc = "queued"
    /\ session' = Status("analyzing", Rat(30, 1))
    /\ Step(t, [tasks[t] EXCEPT !.pc = "analyzing"])
    /\ UNCHANGED files

\* main.py lines 252-259: analyze_video, then the result is saved and the
\* status set to ANALYZED; an exception sets ERROR.
AnalysisRun(t) ==
    /\ Runs(t)
    /\ tasks[t].pc = "analyzing"
    /\ IF src_state = "ok"
       THEN /\ files' = [files EXCEPT !.analysis_json = TRUE]
            /\ session' = Status("analyzed", Rat(100, 1))
            /\ Step(t, [tasks[t] EXCEPT !.pc = "finished", !.outcome = "analyzed"])
       ELSE /\ session' = Status("error", Rat(0, 1))
            /\ Step(t, Failed(tasks[t]))
            /\ UNCHANGED files

\* Mutant of AnalysisStored: the result is taken to be there.
AnalysisAssumed(fs) == TRUE

\* temp_storage.py lines 81-91: get_analysis_result returns a result when the
\* path of the analysis JSON is recorded (the file is never removed).
AnalysisStored(fs) == fs.analysis_json

\* main.py lines 265-270: perform_processing starts by fetching the analysis
\* result and raises when there is none.
ProcessingStart(t) ==
    /\ Runs(t)
    /\ tasks[t].kind = "processing"
    /\ tasks[t].pc = "queued"
    /\ IF AnalysisStored(files)
       THEN /\ Step(t, [tasks[t] EXCEPT !.pc = "opening", !.found = files.analysis_json])
            /\ UNCHANGED session
       ELSE /\ session' = Status("error", Rat(0, 1))
            /\ Step(t, Failed(tasks[t]))
    /\ UNCHANGED files

\* process_video lines 234-258, called at main.py line 276: the source is
\* opened and the sink processed_video.mp4 is created.
RenderOpen(t) ==
    /\ Runs(t)
    /\ tasks[t].pc = "opening"
    /\ IF src_state = "ok" /\ sink_ok
       THEN /\ Step(t, [tasks[t] EXCEPT !.pc = "writing"])
            /\ UNCHANGED session
       ELSE /\ session' = Status("error", Rat(0, 1))
            /\ Step(t, Failed(tasks[t]))
    /\ UNCHANGED files

\* process_video lines 260-288: one frame is read, blurred and written, and
\* on every 10th frame progress_callback (main.py lines 272-274) is called.
RenderWrite(t) ==
    /\ Runs(t)
    /\ tasks[t].pc = "writing"
    /\ tasks[t].written < Len(source)
    /\ IF tasks[t].written % 10 = 0
       THEN IF total_frames = 0
            THEN /\ session' = Status("error", Rat(0, 1))
                 /\ Step(t, [Failed(tasks[t]) EXCEPT !.written = @ + 1])
            ELSE /\ session' = ProgressCallback(session,
                                    Progress(tasks[t].written, total_frames))
                 /\ Step(t, [tasks[t] EXCEPT !.written = @ + 1])
       ELSE /\ Step(t, [tasks[t] EXCEPT !.written = @ + 1])
            /\ UNCHANGED session
    /\ UNCHANGED files

\* process_video lines 290-294 and main.py lines 284-286: the handles are
\* released, the output path is recorded and the status set to COMPLETED.
RenderReturn(t) ==
    /\ Runs(t)
    /\ tasks[t].pc = "writing"
    /\ tasks[t].written = Len(source)
    /\ files' = [files EXCEPT !.output_video = TRUE]
    /\ session' = Status("completed", Rat(100, 1))
    /\ Step(t, [tasks[t] EXCEPT !.pc = "finished", !.outcome = "completed"])

NextSession ==
    \/ UploadRequest
    \/ AnalyzeRequest
    \/ PreviewRequest
    \/ ProcessRequest
    \/ \E t \in DOMAIN tasks : AnalysisStart(t)
    \/ \E t \in DOMAIN tasks : AnalysisRun(t)
    \/ \E t \in DOMAIN tasks : ProcessingStart(t)
    \/ \E t \in DOMAIN tasks : RenderOpen(t)
    \/ \E t \in DOMAIN tasks : RenderWrite(t)
    \/ \E t \in DOMAIN tasks : RenderReturn(t)

SpecSession == InitSession /\ [][NextSession]_vars

----------------------------------------------------------------------------
(* Properties of the render pipeline, checked under Spec *)

\* The frame loop was left: by the break, or by an exception raised inside it.
LoopLeft ==
    \/ pc \in {"release", "done"}
    \/ pc = "raised" /\ error \notin {"FileNotFoundError", "ValueError"}

\* C1: render writes as many frames as the source yields: the frame loop is
\* left only on the reader's no-more-frames signal, with every frame that was
\* read written, whatever frame count the container reported.
C1_StopsOnlyAtEndOfSource ==
    LoopLeft =>
        /\ ret = FALSE
        /\ cap_pos = Len(source)
        /\ Len(sink) = cap_pos

\* C2: the k-th frame written derives from the k-th frame read (index k-1),
\* and every frame read is written before the next one is read: nothing is
\* dropped, duplicated or reordered.
C2_FrameOrderPreserved ==
    /\ \A k \in 1 .. Len(sink) : sink[k].id = k - 1 /\ sink[k].id = source[k].id
    /\ Len(sink) <= cap_pos
    /\ cap_pos <= Len(sink) + 1
    /\ pc = "read" => Len(sink) = cap_pos

\* C2 witness: a render that ran to completion over several frames, some of
\* them blurred.
C2_Witness ==
    /\ pc = "done"
    /\ Len(sink) >= 12
    /\ blurred # {}

\* The region list the schedule holds for frame index n: the entry whose key
\* is the decimal form of n, the empty list when there is none.
ScheduledFor(n) ==
    IF \E key \in DOMAIN masks_data : key = Str(n)
    THEN masks_data[CHOOSE key \in DOMAIN masks_data : key = Str(n)]
    ELSE <<>>

\* C3: the frame written at index k went through the blur exactly when the
\* schedule has a non-empty region list for k, and is then the blur of the
\* frame read; every other frame is written identical to the frame read.
C3_BlurredIffScheduled ==
    /\ \A k \in 1 .. Len(sink) :
          /\ (k - 1 \in blurred) <=> (ScheduledFor(k - 1) # <<>>)
          /\ ScheduledFor(k - 1) = <<>> => sink[k] = source[k]
          /\ ScheduledFor(k - 1) # <<>> =>
                sink[k] = apply_blur_to_frame(source[k], ScheduledFor(k - 1), blur_strength)
    /\ masks_data = <<>> => blurred = {}

\* C3 witness: a finished render in which one frame was blurred and changed,
\* one frame has an empty list in the schedule and one frame has no entry.
C3_Witness ==
    /\ pc = "done"
    /\ \E k \in 1 .. Len(sink) : k - 1 \in blurred /\ sink[k] # source[k]
    /\ \E k \in 1 .. Len(sink) :
          Str(k - 1) \in DOMAIN masks_data /\ masks_data[Str(k - 1)] = <<>>
    /\ \E k \in 1 .. Len(sink) : Str(k - 1) \notin DOMAIN masks_data

\* C9: the percentages passed to the progress callback never decrease.
C9_ProgressMonotone ==
    \A i, j \in 1 .. Len(cb_calls) : i < j => RatLeq(cb_calls[i], cb_calls[j])

\* C9 witness: a finished render that called the callback three times.
C9_Witness ==
    /\ pc = "done"
    /\ Len(cb_calls) >= 3

Percent0 == Rat(0, 1)

Percent100 == Rat(100, 1)

InPercentRange(r) == RatLeq(Percent0, r) /\ RatLeq(r, Percent100)

\* C10: every value passed to the progress callback is a percentage in
\* [0,100], also when the reported frame count differs from the frames read
\* or is 0, and so is the session progress derived from it.
C10_ProgressWithinRange ==
    /\ \A i \in 1 .. Len(cb_calls) : InPercentRange(cb_calls[i])
    /\ InPercentRange(session.progress)
    /\ error # "ZeroDivisionError"

\* C11: when a render that was given a callback has returned, the last
\* percentage passed to the callback is at least the true completion
\* percentage, frames written / frame_count * 100.
C11_LastCallbackCoversCompletion ==
    (pc = "done" /\ progress_callback /\ cb_calls # <<>>) =>
        RatLeq(Rat(Len(sink) * 100, total_frames), cb_calls[Len(cb_calls)])

----------------------------------------------------------------------------
(* Properties of the codec handles, checked under Spec and SpecPreview *)

\* The invocation has been left, by a return or by an exception.
Exited == pc \in {"done", "preview_done", "analysis_done", "raised"}

\* C14: when the invocation has been left, on whatever path, neither the
\* source nor the sink is still held open.
C14_HandlesReleasedOnExit == Exited => ~cap_open /\ ~out_open

\* The invocation returned True.
ReturnedTrue == pc \in {"done", "preview_done"}

\* C15: True is returned only when the source was opened and the sink was
\* created, after every frame read was written and both were released; when
\* either cannot be opened the invocation raises.
C15_TrueOnlyAfterOpenWriteRelease ==
    /\ ReturnedTrue =>
          /\ src_state = "ok"
          /\ sink_ok
          /\ Len(sink) = cap_pos
          /\ ~cap_open /\ ~out_open
    /\ (pc \in {"done", "preview_done", "raised"} /\ (src_state # "ok" \/ ~sink_ok))
          => pc = "raised"

----------------------------------------------------------------------------
(* Properties of the schedule lookup, checked under SpecKeys *)

\* The region list the schedule holds for frame index n under either key
\* form: the int n or its decimal str form.
KeyedFor(n) ==
    IF IntKey(n) \in DOMAIN masks_data THEN masks_data[IntKey(n)]
    ELSE IF Str(n) \in DOMAIN masks_data THEN masks_data[Str(n)]
    ELSE <<>>

\* The full-size frame a written frame was made from: a preview frame is the
\* resized form of it.
FullSize(fr) == IF "from" \in DOMAIN fr THEN fr.from ELSE fr

\* C12: the regions of the entry for frame index k are applied to frame k
\* whether the entry is keyed by the int k or by the str form of k: every
\* written frame is the blur of the frame read by the regions under its key.
C12_KeyFormsInterchangeable ==
    \A k \in 1 .. Len(sink) :
        FullSize(sink[k]) =
            IF KeyedFor(k - 1) = <<>> THEN source[k]
            ELSE apply_blur_to_frame(source[k], KeyedFor(k - 1), blur_strength)

----------------------------------------------------------------------------
(* Properties of detect_faces, checked under SpecDetect *)

WellFormed(face, fw, fh) ==
    /\ face.x >= 0
    /\ face.y >= 0
    /\ face.width > 0
    /\ face.height > 0
    /\ face.x + face.width <= fw
    /\ face.y + face.height <= fh

\* C16: every region detect_faces returns is well-formed for the frame:
\* x >= 0, y >= 0, width > 0, height > 0, x + width <= frame_width and
\* y + height <= frame_height, whatever raw box the detector reported.
C16_RegionsWellFormed ==
    pc = "detect_returned" =>
        \A i \in 1 .. Len(faces_log[1]) :
            WellFormed(faces_log[1][i], frame.w, frame.h)

----------------------------------------------------------------------------
(* Properties of analysis followed by render, checked under SpecAnalysis *)

\* The frame numbers (0-based) analysis has called detect_faces for.
AnalysedFrames == 0 .. (Len(faces_log) - 1)

\* C13: the faces detected on the i-th frame read are recorded under the str
\* form of i and under no other key, and the render of the unedited schedule
\* blurs on output frame i exactly the regions detected on frame i.
C13_KeysStable ==
    /\ \A i \in AnalysedFrames :
          IF faces_log[i + 1] # <<>>
          THEN /\ Str(i) \in DOMAIN faces_by_frame
               /\ faces_by_frame[Str(i)] = faces_log[i + 1]
          ELSE Str(i) \notin DOMAIN faces_by_frame
    /\ DOMAIN faces_by_frame \subseteq {Str(i) : i \in AnalysedFrames}
    /\ \A k \in 1 .. Len(sink) :
          /\ (k - 1 \in blurred) <=> (faces_log[k] # <<>>)
          /\ sink[k] = IF faces_log[k] = <<>> THEN source[k]
                       ELSE apply_blur_to_frame(source[k], faces_log[k], blur_strength)

\* C13 witness: a finished render of an analysis that found faces on frame 1
\* and none on frame 0: frame 1 was written blurred and frame 0 as read.
C13_Witness ==
    /\ pc = "done"
    /\ Len(sink) = 2
    /\ faces_log[1] = <<>>
    /\ faces_log[2] # <<>>
    /\ sink[1] = source[1]
    /\ sink[2] # source[2]

\* C17: a frame on which the detector raised contributes no detections and
\* no schedule entry, the exception never leaves the analysis, and the result
\* returned covers every frame of the source.
C17_DetectionFailureRecovered ==
    /\ error # "DetectorError"
    /\ \A i \in AnalysedFrames :
          detector.frames[i + 1].fails =>
              faces_log[i + 1] = <<>> /\ Str(i) \notin DOMAIN faces_by_frame
    /\ pc = "analysis_done" =>
          /\ Len(faces_log) = Len(source)
          /\ cap_pos = Len(source)
          /\ analysis_result.faces_by_frame = faces_by_frame

\* C17 witness: an analysis that returned after the detector raised on
\* frame 0 and found a face on frame 1.
C17_Witness ==
    /\ pc = "analysis_done"
    /\ Len(faces_log) = 2
    /\ detector.frames[1].fails
    /\ faces_log[2] # <<>>
    /\ Str(1) \in DOMAIN analysis_result.faces_by_frame

----------------------------------------------------------------------------
(* Properties of the session layer, checked under SpecSession *)

\* The perform_processing tasks that hold processed_video.mp4 open for writing.
Writers ==
    {t \in DOMAIN tasks : tasks[t].kind = "processing" /\ tasks[t].pc = "writing"}

\* C18: at any time at most one perform_processing task is writing the
\* session's processed_video.mp4, however the process requests interleave.
C18_OneRenderInFlight == Cardinality(Writers) <= 1

\* C18 witness: a second process request was accepted before the first
\* render started: one task has written a frame while the other is waiting.
C18_Witness ==
    \E t, u \in DOMAIN tasks :
        /\ t # u
        /\ tasks[t].kind = "processing" /\ tasks[t].pc = "writing"
        /\ tasks[t].written >= 1
        /\ tasks[u].kind = "processing" /\ tasks[u].pc = "queued"

\* C19: a COMPLETED session has its output path recorded and an analysis
\* result saved; a perform_processing task sets COMPLETED only after it found
\* a stored analysis and its render wrote every frame, and a task that found
\* none ends with status ERROR.
C19_CompletedHasOutputAndAnalysis ==
    /\ session.status = "completed" =>
          files.output_video /\ files.analysis_json /\ files.uploaded_video
    /\ \A t \in DOMAIN tasks :
          /\ tasks[t].outcome = "completed" =>
                tasks[t].found /\ tasks[t].written = Len(source)
          /\ (tasks[t].kind = "processing" /\ tasks[t].pc = "finished"
                 /\ ~tasks[t].found) => tasks[t].outcome = "error"
    /\ files.output_video => files.analysis_json

\* C19 witness: a process request made before any analysis ended in ERROR,
\* and after an analysis a later one brought the session to COMPLETED.
C19_Witness ==
    /\ session.status = "completed"
    /\ \E t, u \in DOMAIN tasks :
          /\ t < u
          /\ tasks[t].kind = "processing" /\ ~tasks[t].found
          /\ tasks[t].outcome = "error"
          /\ tasks[u].outcome = "completed"

----------------------------------------------------------------------------
(* Properties of the preview pipeline, checked under SpecPreview and SpecDims *)

PreviewFinished == pc = "preview_done"

\* C7 as stated: a finished preview has written
\* min(frames the source holds, round(preview_duration * fps)) frames.
C7_PreviewCountRounded ==
    PreviewFinished =>
        Len(sink) = Min(Len(source),
                        Round(Rat(preview_duration * fps.num, fps.den)))

\* C7 amended: a finished preview has written min(frames the source holds,
\* reported frame_count, floor(preview_duration * fps)) frames when its sink
\* was created, and no frame when it was not.
C7_PreviewCountTruncated ==
    PreviewFinished =>
        Len(sink) = IF sink_ok
                    THEN Min(Len(source),
                             Min(total_frames,
                                 (preview_duration * fps.num) \div fps.den))
                    ELSE 0

\* C7 witness: a finished preview at a non-integer frame rate whose count is
\* decided by the duration: floor(preview_duration * fps) is below both the
\* frames the source holds and the reported count, and below the rounded
\* product.
C7_Witness ==
    /\ PreviewFinished
    /\ sink_ok
    /\ Len(sink) >= 1
    /\ Len(sink) < Len(source)
    /\ Len(sink) < total_frames
    /\ (preview_duration * fps.num) % fps.den # 0
    /\ Len(sink) < Round(Rat(preview_duration * fps.num, fps.den))

SizeComputed == pc \in {"dims_resize", "dims_done", "raised"}

\* C8 as stated: the preview sink and every preview frame have the size
\* (min(640, width), round(preview_width * height / width)).
C8_PreviewSizeRounded ==
    SizeComputed =>
        /\ preview_width = Min(640, width)
        /\ preview_height = Round(Rat(preview_width * height, width))
        /\ pc = "dims_done" => frame.w = preview_width /\ frame.h = preview_height

\* C8 amended: the preview sink and every preview frame have the size
\* (min(640, width), floor(preview_width * height / width)).
C8_PreviewSizeTruncated ==
    SizeComputed =>
        /\ preview_width = Min(640, width)
        /\ preview_height * width <= preview_width * height
        /\ preview_width * height < (preview_height + 1) * width
        /\ pc = "dims_done" => frame.w = preview_width /\ frame.h = preview_height

\* C8 witness: a source wider than 640 whose scaled height is not an integer
\* and lies nearer to the next integer: the frame was resized to the floor.
C8_Witness ==
    /\ pc = "dims_done"
    /\ width > 640
    /\ 2 * ((preview_width * height) % width) >= width
    /\ frame.h = preview_height

----------------------------------------------------------------------------
(* Properties of apply_blur_to_frame, checked under SpecBlur *)

\* The region lies fully outside the frame, on some side.
FullyOutside(m, fr) ==
    \/ m.x + m.width <= 0
    \/ m.y + m.height <= 0
    \/ m.x >= fr.w
    \/ m.y >= fr.h

\* [max(0,x), min(frame_width, x+width)) x [max(0,y), min(frame_height, y+height))
ClippedRect(m, fr) ==
    [xa |-> Max(0, m.x), xb |-> Min(fr.w, m.x + m.width),
     ya |-> Max(0, m.y), yb |-> Min(fr.h, m.y + m.height)]

InRect(p, r) == r.xa <= p[1] /\ p[1] < r.xb /\ r.ya <= p[2] /\ p[2] < r.yb

RectsOverlap(r, q) ==
    Max(r.xa, q.xa) < Min(r.xb, q.xb) /\ Max(r.ya, q.ya) < Min(r.yb, q.yb)

\* The pixels of img inside the non-empty rectangle r, as an image of its own.
SubImage(img, r) ==
    [w |-> r.xb - r.xa, h |-> r.yb - r.ya,
     px |-> [p \in (0 .. r.xb - r.xa - 1) \X (0 .. r.yb - r.ya - 1) |->
                img.px[<<r.xa + p[1], r.ya + p[2]>>]]]

\* img with the pixels of rectangle r replaced by those of val.
WithRect(img, r, val) ==
    [img EXCEPT !.px =
        [p \in DOMAIN img.px |->
            IF InRect(p, r) THEN val.px[<<p[1] - r.xa, p[2] - r.ya>>] ELSE img.px[p]]]

MaskIndices == 1 .. Len(masks)

\* C4: a region fully outside the frame (left of x=0, above y=0, right of
\* frame_width or below frame_height) is a no-op: the frame returned is the
\* one returned for the list without the outside regions, so when every
\* region is outside it is the input frame.
C4_OutsideRegionIsNoOp ==
    pc = "blur_returned" =>
        result_frame =
            apply_blur_to_frame(frame,
                SelectSeq(masks, LAMBDA m : ~FullyOutside(m, frame)), blur_strength)

\* C5: when every region has positive size and intersects the frame, a pixel
\* that lies in no region's clipped rectangle is returned as it was read.
C5_OnlyClippedRectsChange ==
    (pc = "blur_returned" /\ \A i \in MaskIndices : ~FullyOutside(masks[i], frame)) =>
        /\ result_frame.w = frame.w
        /\ result_frame.h = frame.h
        /\ \A p \in DOMAIN frame.px :
              (\A i \in MaskIndices : ~InRect(p, ClippedRect(masks[i], frame)))
                  => result_frame.px[p] = frame.px[p]

\* C5 witness: a region partially inside the frame was blurred: a pixel of
\* its clipped rectangle changed while a pixel outside every region exists.
C5_Witness ==
    /\ pc = "blur_returned"
    /\ masks # <<>>
    /\ \A i \in MaskIndices : ~FullyOutside(masks[i], frame)
    /\ \E i \in MaskIndices : masks[i].x < 0 \/ masks[i].x + masks[i].width > frame.w
    /\ \E p \in DOMAIN frame.px : result_frame.px[p] # frame.px[p]
    /\ \E p \in DOMAIN frame.px :
          \A i \in MaskIndices : ~InRect(p, ClippedRect(masks[i], frame))

\* The frame after the first region alone has been blurred.
AfterFirst == apply_blur_to_frame(frame, <<masks[1]>>, blur_strength)

TwoOverlapping ==
    /\ pc = "blur_returned"
    /\ Len(masks) = 2
    /\ ~FullyOutside(masks[1], frame)
    /\ ~FullyOutside(masks[2], frame)
    /\ RectsOverlap(ClippedRect(masks[1], frame), ClippedRect(masks[2], frame))

\* C6: with two overlapping regions the second blur reads the working copy:
\* the result is the frame after the first blur with the second region's
\* rectangle replaced by the blur of that rectangle of the already blurred frame.
C6_SecondBlurReadsFirst ==
    TwoOverlapping =>
        result_frame =
            WithRect(AfterFirst, ClippedRect(masks[2], frame),
                GaussianBlur(SubImage(AfterFirst, ClippedRect(masks[2], frame)),
                             KernelSize(blur_strength)))

\* C6 witness: two overlapping regions whose compounded result differs from
\* blurring the second region from the original pixels.
C6_Witness ==
    /\ TwoOverlapping
    /\ result_frame #
            WithRect(AfterFirst, ClippedRect(masks[2], frame),
                GaussianBlur(SubImage(frame, ClippedRect(masks[2], frame)),
                             KernelSize(blur_strength)))

====
